---- MODULE Spec2Model ----
(***************************************************************************)
(* scripts/caddy_to_clf.py: a filter that reads Caddy JSON access-log      *)
(* lines on stdin and prints Combined Log Format lines on stdout.          *)
(*                                                                         *)
(* Python values are tagged records: [t |-> "null"], [t |-> "bool", b],    *)
(* [t |-> "int", n], [t |-> "float", n, us] (the number n + us/10^6),      *)
(* [t |-> "str", s], [t |-> "list", l] and [t |-> "obj", o] (a dict, o a   *)
(* function from its keys to values).  An evaluation either returns a      *)
(* value or raises an exception, named by its Python class.                *)
(***************************************************************************)
EXTENDS Integers, Sequences, FiniteSets, TLC

VARIABLES stdin, pos, stdout, pc, exc, line, clf_line, tz

vars == <<stdin, pos, stdout, pc, exc, line, clf_line, tz>>

-----------------------------------------------------------------------------
(* Bounds of the model *)

\* longest input stream of the driver specification
MaxLines == 3
\* longest value sequence of a header
MaxHeaderValues == 2

-----------------------------------------------------------------------------
(* Python values and outcomes *)

NoneV == [t |-> "null"]
BoolV(b) == [t |-> "bool", b |-> b]
IntV(n) == [t |-> "int", n |-> n]
FloatV(n, us) == [t |-> "float", n |-> n, us |-> us]
StrV(s) == [t |-> "str", s |-> s]
ListV(l) == [t |-> "list", l |-> l]
DictV(o) == [t |-> "obj", o |-> o]

Return(v) == [kind |-> "return", v |-> v]
Raise(e) == [kind |-> "raise", exc |-> e]

\* bool(v): the truth value of a Python value
Truthy(v) ==
  CASE v.t = "null" -> FALSE
    [] v.t = "bool" -> v.b
    [] v.t = "int" -> v.n # 0
    [] v.t = "float" -> v.n # 0 \/ v.us # 0
    [] v.t = "str" -> v.s # ""
    [] v.t = "list" -> Len(v.l) > 0
    [] v.t = "obj" -> DOMAIN v.o # {}

\* v == 'literal' for a str literal: only an equal str compares equal
PyEqStr(v, s) == v.t = "str" /\ v.s = s

\* whether v.get resolves: only a dict has the attribute
HasGet(v) == v.t = "obj"

\* (a get that forgets its default)
dict_get_nodefault(d, key, default) == IF key \in DOMAIN d.o THEN d.o[key] ELSE NoneV

\* d.get(key, default) on a dict d
dict_get(d, key, default) == IF key \in DOMAIN d.o THEN d.o[key] ELSE default

\* s[0] of a non-empty str.  TLC strings are atomic, so the first character
\* is tabulated for the strings the inputs draw from.
FirstChar(s) ==
  CASE s = "curl/8.0" -> "c"
    [] s = "TestAgent/1.0" -> "T"
    [] s = "Mozilla/5.0" -> "M"
    [] s = "https://a.example/" -> "h"
    [] s = "https://b.example/" -> "h"
    [] s = "GET" -> "G"
    [] s = "abc" -> "a"
    [] s = "x" -> "x"

\* (the last element taken for the first)
SubscriptLast(v) ==
  CASE v.t = "list" -> IF Len(v.l) > 0 THEN Return(v.l[Len(v.l)]) ELSE Raise("IndexError")
    [] v.t = "str" -> IF v.s # "" THEN Return(StrV(FirstChar(v.s))) ELSE Raise("IndexError")
    [] v.t = "obj" -> Raise("KeyError")
    [] OTHER -> Raise("TypeError")

\* v[0]
Subscript0(v) ==
  CASE v.t = "list" -> IF Len(v.l) > 0 THEN Return(v.l[1]) ELSE Raise("IndexError")
    [] v.t = "str" -> IF v.s # "" THEN Return(StrV(FirstChar(v.s))) ELSE Raise("IndexError")
    [] v.t = "obj" -> Raise("KeyError")
    [] OTHER -> Raise("TypeError")

-----------------------------------------------------------------------------
(* str() of a value, as the f-string applies it *)

Digit(d) ==
  CASE d = 0 -> "0" [] d = 1 -> "1" [] d = 2 -> "2" [] d = 3 -> "3" [] d = 4 -> "4"
    [] d = 5 -> "5" [] d = 6 -> "6" [] d = 7 -> "7" [] d = 8 -> "8" [] d = 9 -> "9"

RECURSIVE NatStr(_)
NatStr(n) == IF n < 10 THEN Digit(n) ELSE NatStr(n \div 10) \o Digit(n % 10)

IntStr(n) == IF n < 0 THEN "-" \o NatStr(-n) ELSE NatStr(n)

\* n as exactly w digits, zero padded (n < 10^w)
RECURSIVE Pad(_, _)
Pad(n, w) == IF w = 0 THEN "" ELSE Pad(n \div 10, w - 1) \o Digit(n % 10)

\* the fractional digits of us/10^6 without trailing zeros ("0" for none)
RECURSIVE FracDigits(_, _)
FracDigits(us, w) ==
  IF us = 0 THEN (IF w = 6 THEN "0" ELSE "")
  ELSE IF us % 10 = 0 /\ w > 0 THEN FracDigits(us \div 10, w - 1)
  ELSE Pad(us, w)

FloatStr(n, us) ==
  IF n < 0 /\ us > 0
  THEN "-" \o NatStr(-n - 1) \o "." \o FracDigits(1000000 - us, 6)
  ELSE IntStr(n) \o "." \o FracDigits(us, 6)

RECURSIVE PyRepr(_)
RECURSIVE JoinRepr(_)
JoinRepr(l) ==
  IF Len(l) = 0 THEN ""
  ELSE IF Len(l) = 1 THEN PyRepr(l[1])
  ELSE PyRepr(l[1]) \o ", " \o JoinRepr(Tail(l))

\* repr(v); the strings of the inputs hold no quote and no escape
PyRepr(v) ==
  CASE v.t = "null" -> "None"
    [] v.t = "bool" -> IF v.b THEN "True" ELSE "False"
    [] v.t = "int" -> IntStr(v.n)
    [] v.t = "float" -> FloatStr(v.n, v.us)
    [] v.t = "str" -> "'" \o v.s \o "'"
    [] v.t = "list" -> "[" \o JoinRepr(v.l) \o "]"
    [] v.t = "obj" ->
         \* (one key at most: a dict's key order is not part of the value)
         IF DOMAIN v.o = {} THEN "{}"
         ELSE LET k == CHOOSE x \in DOMAIN v.o : TRUE
              IN "{'" \o k \o "': " \o PyRepr(v.o[k]) \o "}"

\* str(v): a str is itself, every other value its repr
PyStr(v) == IF v.t = "str" THEN v.s ELSE PyRepr(v)

-----------------------------------------------------------------------------
(* The input line: json.loads and str.strip *)

\* A line of text is a sequence of tokens: a whitespace character, a run of
\* text that is no JSON document, or the text of the JSON document v.
Ws == [k |-> "ws"]
Junk(s) == [k |-> "junk", s |-> s]
Doc(v) == [k |-> "doc", v |-> v]

RECURSIVE lstrip(_)
lstrip(text) ==
  IF Len(text) > 0 /\ Head(text) = Ws THEN lstrip(Tail(text)) ELSE text

RECURSIVE rstrip(_)
rstrip(text) ==
  IF Len(text) > 0 /\ text[Len(text)] = Ws
  THEN rstrip(SubSeq(text, 1, Len(text) - 1)) ELSE text

\* line.strip()
strip(text) == rstrip(lstrip(text))

\* json.loads(text): the decoder skips whitespace around the document and
\* accepts exactly one document; anything else is a JSONDecodeError
json_loads(text) ==
  LET body == strip(text)
  IN IF Len(body) = 1 /\ body[1].k = "doc"
     THEN Return(body[1].v)
     ELSE Raise("JSONDecodeError")

-----------------------------------------------------------------------------
(* datetime.fromtimestamp and strftime *)

\* the calendar date of a day number (days since 1970-01-01)
CivilFromDays(days) ==
  LET z == days + 719468
      era == z \div 146097
      doe == z - era * 146097
      yoe == (doe - doe \div 1460 + doe \div 36524 - doe \div 146096) \div 365
      doy == doe - (365 * yoe + yoe \div 4 - yoe \div 100)
      mp == (5 * doy + 2) \div 153
      d == doy - (153 * mp + 2) \div 5 + 1
      m == IF mp < 10 THEN mp + 3 ELSE mp - 9
      y == yoe + era * 400 + (IF m <= 2 THEN 1 ELSE 0)
  IN [year |-> y, month |-> m, day |-> d]

\* the whole seconds of a timestamp value (bool is an int; a float is floored
\* after its rounding to microseconds)
Seconds(timestamp) ==
  CASE timestamp.t = "bool" -> IF timestamp.b THEN 1 ELSE 0
    [] timestamp.t = "int" -> timestamp.n
    [] timestamp.t = "float" -> timestamp.n

\* datetime.fromtimestamp(timestamp): the naive local time, utcoffset the
\* offset of the process's time zone in seconds.  The timestamps of the
\* model are all within the platform's range.
fromtimestamp(timestamp, utcoffset) ==
  IF timestamp.t \notin {"bool", "int", "float"} THEN Raise("TypeError")
  ELSE LET local == Seconds(timestamp) + utcoffset
           date == CivilFromDays(local \div 86400)
           secs == local % 86400
       IN Return([year |-> date.year, month |-> date.month, day |-> date.day,
                  hour |-> secs \div 3600, minute |-> (secs % 3600) \div 60,
                  second |-> secs % 60, tzinfo |-> "None"])

MonthAbbr(m) ==
  CASE m = 1 -> "Jan" [] m = 2 -> "Feb" [] m = 3 -> "Mar" [] m = 4 -> "Apr"
    [] m = 5 -> "May" [] m = 6 -> "Jun" [] m = 7 -> "Jul" [] m = 8 -> "Aug"
    [] m = 9 -> "Sep" [] m = 10 -> "Oct" [] m = 11 -> "Nov" [] m = 12 -> "Dec"

\* one element of a format: a directive expanded, any other text kept
Directive(dt, f) ==
  CASE f = "%d" -> Pad(dt.day, 2)
    [] f = "%b" -> MonthAbbr(dt.month)
    [] f = "%Y" -> Pad(dt.year, 4)
    [] f = "%H" -> Pad(dt.hour, 2)
    [] f = "%M" -> Pad(dt.minute, 2)
    [] f = "%S" -> Pad(dt.second, 2)
    \* %z of a naive datetime (tzinfo is None) is the empty string
    [] f = "%z" -> IF dt.tzinfo = "None" THEN "" ELSE dt.tzinfo
    [] OTHER -> f

\* dt.strftime(format), the format given as its sequence of elements
RECURSIVE strftime(_, _)
strftime(dt, format) ==
  IF Len(format) = 0 THEN ""
  ELSE Directive(dt, Head(format)) \o strftime(dt, Tail(format))

\* '%d/%b/%Y:%H:%M:%S %z'
FormatZ == <<"%d", "/", "%b", "/", "%Y", ":", "%H", ":", "%M", ":", "%S", " ", "%z">>
\* '%d/%b/%Y:%H:%M:%S +0000'
FormatUTC == <<"%d", "/", "%b", "/", "%Y", ":", "%H", ":", "%M", ":", "%S", " +0000">>

\* time_str = dt.strftime(FormatZ) or dt.strftime(FormatUTC)
time_str(dt) ==
  LET primary == strftime(dt, FormatZ)
  IN IF primary # "" THEN primary ELSE strftime(dt, FormatUTC)

-----------------------------------------------------------------------------
(* json_to_clf *)

ACCESS_LOGGER == "http.log.access.log0"

\* (a filter that lets a record without logger through)
not_access_log_if_present(data) ==
  "logger" \in DOMAIN data.o /\ ~PyEqStr(data.o["logger"], ACCESS_LOGGER)

\* data.get('logger') != 'http.log.access.log0'
not_access_log(data) == ~PyEqStr(dict_get(data, "logger", NoneV), ACCESS_LOGGER)

\* (no rewrite of the loopback address)
remote_ip_verbatim(request) == dict_get(request, "remote_ip", StrV("-"))

\* remote_ip = request.get('remote_ip', '-'), '::1' rewritten
remote_ip(request) ==
  LET ip == dict_get(request, "remote_ip", StrV("-"))
  IN IF PyEqStr(ip, "::1") THEN StrV("127.0.0.1") ELSE ip

\* headers.get(name, ['-'])[0] if headers.get(name) else '-'
header_value(headers, name) ==
  IF Truthy(dict_get(headers, name, NoneV))
  THEN Subscript0(dict_get(headers, name, ListV(<<StrV("-")>>)))
  ELSE Return(StrV("-"))

\* (referer and user agent in each other's place)
clf_format_swapped(f) ==
  PyStr(f.remote_ip) \o " - - [" \o f.time_str \o "] \"" \o PyStr(f.method)
    \o " " \o PyStr(f.uri) \o " " \o PyStr(f.proto) \o "\" " \o PyStr(f.status)
    \o " " \o PyStr(f.size) \o " \"" \o PyStr(f.user_agent) \o "\" \""
    \o PyStr(f.referer) \o "\""

\* the f-string of the Combined Log Format
clf_format(f) ==
  PyStr(f.remote_ip) \o " - - [" \o f.time_str \o "] \"" \o PyStr(f.method)
    \o " " \o PyStr(f.uri) \o " " \o PyStr(f.proto) \o "\" " \o PyStr(f.status)
    \o " " \o PyStr(f.size) \o " \"" \o PyStr(f.referer) \o "\" \""
    \o PyStr(f.user_agent) \o "\""

\* The body of the try block, statement by statement: it raises, returns
\* None, or reaches the f-string with the local variables `frame`.
try_body(json_line, utcoffset) ==
  LET loaded == json_loads(json_line) IN
  IF loaded.kind = "raise" THEN loaded ELSE
  LET data == loaded.v IN
  IF ~HasGet(data) THEN Raise("AttributeError") ELSE
  IF not_access_log(data) THEN Return(NoneV) ELSE
  LET request == dict_get(data, "request", DictV(<<>>)) IN
  IF ~HasGet(request) THEN Raise("AttributeError") ELSE
  LET dt == fromtimestamp(dict_get(data, "ts", IntV(0)), utcoffset) IN
  IF dt.kind = "raise" THEN dt ELSE
  LET headers == dict_get(request, "headers", DictV(<<>>)) IN
  IF ~HasGet(headers) THEN Raise("AttributeError") ELSE
  LET user_agent == header_value(headers, "User-Agent") IN
  IF user_agent.kind = "raise" THEN user_agent ELSE
  LET referer == header_value(headers, "Referer") IN
  IF referer.kind = "raise" THEN referer ELSE
  [kind |-> "format",
   frame |-> [remote_ip |-> remote_ip(request),
              time_str |-> time_str(dt.v),
              method |-> dict_get(request, "method", StrV("-")),
              uri |-> dict_get(request, "uri", StrV("-")),
              proto |-> dict_get(request, "proto", StrV("-")),
              status |-> dict_get(data, "status", IntV(0)),
              size |-> dict_get(data, "size", IntV(0)),
              user_agent |-> user_agent.v,
              referer |-> referer.v]]

\* except (json.JSONDecodeError, KeyError, ValueError)
Handled == {"JSONDecodeError", "KeyError", "ValueError"}

json_to_clf(json_line, utcoffset) ==
  LET r == try_body(json_line, utcoffset)
  IN CASE r.kind = "format" -> Return(StrV(clf_format(r.frame)))
       [] r.kind = "raise" /\ r.exc \in Handled -> Return(NoneV)
       [] OTHER -> r

-----------------------------------------------------------------------------
(* The driver: for line in sys.stdin *)

\* (the new line put before the earlier ones)
print_stdout_first(out, v) == <<PyStr(v)>> \o out

\* print(clf_line): one more line on stdout
print_stdout(out, v) == Append(out, PyStr(v))

\* One iteration of the loop: read a line, convert it, print a truthy result.
\* An exception json_to_clf lets through ends the process with a traceback.
Iterate ==
  /\ pc = "loop"
  /\ pos < Len(stdin)
  /\ pos' = pos + 1
  /\ line' = stdin[pos + 1]
  /\ LET r == json_to_clf(strip(stdin[pos + 1]), tz)
     IN IF r.kind = "raise"
        THEN /\ pc' = "crashed"
             /\ exc' = r.exc
             /\ UNCHANGED <<clf_line, stdout>>
        ELSE /\ clf_line' = r.v
             /\ stdout' = IF Truthy(r.v) THEN print_stdout(stdout, r.v) ELSE stdout
             /\ UNCHANGED <<pc, exc>>
  /\ UNCHANGED <<stdin, tz>>

\* End of input: the loop ends and the process exits
Eof ==
  /\ pc = "loop"
  /\ pos = Len(stdin)
  /\ pc' = "exited"
  /\ UNCHANGED <<stdin, pos, stdout, exc, line, clf_line, tz>>

Next == Iterate \/ Eof

-----------------------------------------------------------------------------
(* Inputs *)

\* A record to build: every field a value, Absent (the key is missing) or,
\* for request and headers, Nested (the mapping built from the fields below)
Absent == [t |-> "absent"]
Nested == [t |-> "nested"]

Present(keys, f) == [k \in {x \in keys : f[x] # Absent} |-> f[k]]

BuildHeaders(sh) ==
  IF sh.headers = Nested
  THEN DictV(Present({"User-Agent", "Referer"},
                     [k \in {"User-Agent", "Referer"} |->
                        IF k = "User-Agent" THEN sh.user_agent ELSE sh.referer]))
  ELSE sh.headers

BuildRequest(sh) ==
  IF sh.request = Nested
  THEN DictV(Present({"remote_ip", "method", "uri", "proto", "headers"},
                     [remote_ip |-> sh.remote_ip, method |-> sh.method,
                      uri |-> sh.uri, proto |-> sh.proto,
                      headers |-> BuildHeaders(sh)]))
  ELSE sh.request

Build(sh) ==
  DictV(Present({"logger", "request", "ts", "status", "size"},
                [logger |-> sh.logger, request |-> BuildRequest(sh),
                 ts |-> sh.ts, status |-> sh.status, size |-> sh.size]))

\* the text of one input line: the document and the newline
TextOf(v) == <<Doc(v), Ws>>

Base ==
  [logger |-> StrV(ACCESS_LOGGER), request |-> Nested,
   remote_ip |-> StrV("203.0.113.9"), method |-> StrV("GET"),
   uri |-> StrV("/index.html"), proto |-> StrV("HTTP/1.1"), headers |-> Nested,
   user_agent |-> ListV(<<StrV("TestAgent/1.0")>>),
   referer |-> ListV(<<StrV("https://a.example/")>>),
   ts |-> IntV(1700000000), status |-> IntV(200), size |-> IntV(512)]

Fields == DOMAIN Base

\* values of every JSON type, empty and non-empty
AnyValues ==
  {NoneV, BoolV(TRUE), BoolV(FALSE), IntV(0), IntV(5), FloatV(1, 500000),
   StrV(""), StrV("abc"), ListV(<<>>), ListV(<<StrV("x")>>),
   DictV(<<>>), DictV([a |-> IntV(1)])}

\* every subset of the fields other than logger missing
Droppable == Fields \ {"logger"}
MissingShapes ==
  {[k \in Fields |-> IF k \in S THEN Absent ELSE Base[k]] : S \in SUBSET Droppable}

\* one field of any type
TypedShapes == {[Base EXCEPT ![k] = v] : k \in Fields, v \in AnyValues}

\* records of other loggers, the other fields of any type
OtherLoggers ==
  {Absent, StrV("tls.handshake"), StrV("http.log.access.log1"), StrV("http.log.access"),
   StrV(""), NoneV, IntV(0), BoolV(TRUE), ListV(<<StrV(ACCESS_LOGGER)>>)}
LoggerShapes ==
  {[sh EXCEPT !.logger = lg] : sh \in TypedShapes \cup {Base}, lg \in OtherLoggers}

\* header values: missing, of any type, or a sequence of strings
HeaderStrings == {StrV("TestAgent/1.0"), StrV("https://b.example/"), StrV("")}
HeaderLists ==
  UNION {{ListV(l) : l \in [1..n -> HeaderStrings]} : n \in 1..MaxHeaderValues}
HeaderValues == {Absent} \cup AnyValues \cup HeaderLists
HeaderShapes ==
  {[Base EXCEPT !.user_agent = u, !.referer = r] : u \in HeaderValues, r \in HeaderValues}

RemoteIps ==
  {StrV("::1"), StrV("0:0:0:0:0:0:0:1"), StrV("::ffff:127.0.0.1"), StrV("127.0.0.1"),
   StrV(" ::1"), StrV("-"), StrV("")}
IpShapes ==
  {[Base EXCEPT !.remote_ip = ip, !.method = m] : ip \in RemoteIps, m \in {Absent, StrV("GET")}}

Timestamps ==
  {IntV(0), IntV(-1), IntV(86399), IntV(951782400), IntV(1709251199), IntV(2000000000),
   FloatV(1700000000, 123456), FloatV(-2, 500000), BoolV(TRUE)}
TsShapes == {[Base EXCEPT !.ts = t] : t \in Timestamps}

\* lines that are no JSON document
InvalidTexts ==
  {<<>>, <<Ws>>, <<Ws, Ws, Ws>>, <<Junk("not json at all"), Ws>>,
   <<Ws, Junk("{"), Ws>>, <<Doc(Build(Base)), Junk("x"), Ws>>,
   <<Doc(Build(Base)), Ws, Doc(Build(Base)), Ws>>}

ConvLines ==
  {TextOf(Build(sh)) : sh \in MissingShapes \cup TypedShapes \cup LoggerShapes
                             \cup HeaderShapes \cup IpShapes \cup TsShapes}
    \cup {TextOf(v) : v \in AnyValues}
    \cup {<<Ws, Doc(Build(Base)), Ws, Ws>>}
    \cup InvalidTexts

\* the lines the streams of the driver are made of
DriverLines ==
  {TextOf(Build([Base EXCEPT !.remote_ip = StrV("::1"), !.referer = Absent])),
   TextOf(Build([Base EXCEPT !.method = Absent, !.status = IntV(404), !.size = Absent])),
   TextOf(Build([Base EXCEPT !.logger = StrV("tls.handshake")])),
   TextOf(Build([Base EXCEPT !.user_agent = DictV([a |-> IntV(1)])])),
   TextOf(Build([Base EXCEPT !.request = StrV("abc")])),
   TextOf(IntV(5)),
   <<Junk("not json at all"), Ws>>,
   <<Ws>>}

\* the UTC offsets of the process's time zone, in seconds
TzOffsets == {0, -28800, 19800}

TypeOK ==
  /\ pos \in 0..Len(stdin)
  /\ pc \in {"loop", "exited", "crashed"}
  /\ Len(stdout) <= pos

Start ==
  /\ pos = 0
  /\ stdout = <<>>
  /\ pc = "loop"
  /\ exc = ""
  /\ line = <<>>
  /\ clf_line = [t |-> "unset"]
  /\ tz \in TzOffsets

\* the driver on a stream of up to MaxLines lines
Init ==
  /\ stdin \in UNION {[1..n -> DriverLines] : n \in 0..MaxLines}
  /\ Start

Spec == Init /\ [][Next]_vars

\* json_to_clf on one line
ConvInit ==
  /\ stdin \in {<<l>> : l \in ConvLines}
  /\ Start

ConvSpec == ConvInit /\ [][Next]_vars

-----------------------------------------------------------------------------
(* Vocabulary of the properties *)

\* the driver has made a call of json_to_clf, on `line`
Called == pos > 0

\* the number of lines json_to_clf has returned from
Processed == IF pc = "crashed" THEN pos - 1 ELSE pos

\* the call returned v to the driver
Yielded(v) == pc # "crashed" /\ clf_line = v

\* the call returned a formatted line
Formatted == pc # "crashed" /\ clf_line.t = "str"

\* text is one JSON document and whitespace
ValidJson(text) ==
  \E i \in 1..Len(text) :
    /\ text[i].k = "doc"
    /\ \A j \in 1..Len(text) : j # i => text[j].k = "ws"

DocOf(text) == text[CHOOSE i \in 1..Len(text) : text[i].k = "doc"].v

Has(d, k) == d.t = "obj" /\ k \in DOMAIN d.o

\* a JSON object whose logger is exactly the access-log marker
AccessRecord(d) ==
  /\ Has(d, "logger")
  /\ d.o["logger"].t = "str"
  /\ d.o["logger"].s = "http.log.access.log0"

IsNumber(v) == v.t \in {"int", "float"}
IsStrings(v) == v.t = "list" /\ Len(v.l) > 0 /\ \A i \in 1..Len(v.l) : v.l[i].t = "str"

RequestOf(d) == IF Has(d, "request") THEN d.o["request"] ELSE [t |-> "obj", o |-> <<>>]
HeadersOf(d) ==
  IF Has(RequestOf(d), "headers") THEN RequestOf(d).o["headers"] ELSE [t |-> "obj", o |-> <<>>]

\* the fields of a record are missing or of their documented types
MissingOr(d, k, Ok(_)) == Has(d, k) => Ok(d.o[k])
IsStrV(v) == v.t = "str"
IsIntV(v) == v.t = "int"
IsMapping(v) == v.t = "obj"
Documented(d) ==
  /\ AccessRecord(d)
  /\ MissingOr(d, "request", IsMapping)
  /\ MissingOr(RequestOf(d), "headers", IsMapping)
  /\ \A k \in {"remote_ip", "method", "uri", "proto"} : MissingOr(RequestOf(d), k, IsStrV)
  /\ \A k \in {"User-Agent", "Referer"} : MissingOr(HeadersOf(d), k, IsStrings)
  /\ MissingOr(d, "ts", IsNumber)
  /\ \A k \in {"status", "size"} : MissingOr(d, k, IsIntV)

AllPresent(d) ==
  /\ \A k \in {"request", "ts", "status", "size"} : Has(d, k)
  /\ \A k \in {"remote_ip", "method", "uri", "proto", "headers"} : Has(RequestOf(d), k)
  /\ \A k \in {"User-Agent", "Referer"} : Has(HeadersOf(d), k)

\* REMOTE_IP - - [TIME] "METHOD URI PROTO" STATUS SIZE "REFERER" "USER_AGENT"
CombinedLine(ip, time, method, uri, proto, status, size, referer, user_agent) ==
  ip \o " - - [" \o time \o "] \"" \o method \o " " \o uri \o " " \o proto \o "\" "
     \o status \o " " \o size \o " \"" \o referer \o "\" \"" \o user_agent \o "\""

\* what each field of the output is expected to read
TextOr(d, k, default) == IF Has(d, k) THEN d.o[k].s ELSE default
NumberOr(d, k, default) == IF Has(d, k) THEN IntStr(d.o[k].n) ELSE default
FirstOr(d, k, default) == IF Has(d, k) THEN d.o[k].l[1].s ELSE default
IpOf(d) ==
  IF TextOr(RequestOf(d), "remote_ip", "-") = "::1"
  THEN "127.0.0.1" ELSE TextOr(RequestOf(d), "remote_ip", "-")
TimeOf(d) ==
  time_str(fromtimestamp(IF Has(d, "ts") THEN d.o["ts"] ELSE IntV(0), tz).v)

ExpectedLine(d) ==
  CombinedLine(IpOf(d), TimeOf(d),
               TextOr(RequestOf(d), "method", "-"), TextOr(RequestOf(d), "uri", "-"),
               TextOr(RequestOf(d), "proto", "-"),
               NumberOr(d, "status", "0"), NumberOr(d, "size", "0"),
               FirstOr(HeadersOf(d), "Referer", "-"), FirstOr(HeadersOf(d), "User-Agent", "-"))

\* the local variables of the call that formatted `line`
FrameOf == try_body(strip(line), tz).frame

\* the formatted line of that call with some of its fields replaced
LineWith(ip, referer, user_agent) ==
  CombinedLine(ip, FrameOf.time_str, PyStr(FrameOf.method), PyStr(FrameOf.uri),
               PyStr(FrameOf.proto), PyStr(FrameOf.status), PyStr(FrameOf.size),
               referer, user_agent)

-----------------------------------------------------------------------------
(* Properties *)

\* C2 (logger filter): a JSON object whose logger is missing or is anything but
\* exactly "http.log.access.log0" yields None and no output line, whatever
\* its other fields are.
C2_LoggerFilter ==
  (Called /\ ValidJson(line) /\ DocOf(line).t = "obj" /\ ~AccessRecord(DocOf(line)))
    => (Yielded(NoneV) /\ stdout = <<>>)

\* a record of another logger whose request is no mapping was skipped
C2_Witness ==
  /\ Called /\ ValidJson(line)
  /\ Has(DocOf(line), "logger") /\ ~AccessRecord(DocOf(line))
  /\ Has(DocOf(line), "request") /\ DocOf(line).o["request"].t = "str"
  /\ Yielded(NoneV)

\* C6 (template positions): an access record with every field present and of
\* its documented type gives exactly the Combined Log Format line, each value
\* in its own position.
C6_TemplatePositions ==
  (Called /\ ValidJson(line) /\ Documented(DocOf(line)) /\ AllPresent(DocOf(line)))
    => Yielded(StrV(ExpectedLine(DocOf(line))))

\* a complete record with two Referer values was formatted
C6_Witness ==
  /\ Called /\ ValidJson(line) /\ Documented(DocOf(line)) /\ AllPresent(DocOf(line))
  /\ Len(HeadersOf(DocOf(line)).o["Referer"].l) = 2
  /\ Formatted

\* C7 (independent defaults): in an access record, each missing one of
\* remote_ip, method, uri, proto reads "-", each missing status or size reads
\* "0", each missing Referer or User-Agent reads "-" (also with request or
\* headers missing), every present field reads its own value, and the line
\* is never skipped.
C7_IndependentDefaults ==
  (Called /\ ValidJson(line) /\ Documented(DocOf(line)))
    => Yielded(StrV(ExpectedLine(DocOf(line))))

\* method, size and Referer missing, uri, status and User-Agent present
C7_Witness ==
  /\ Called /\ ValidJson(line) /\ Documented(DocOf(line))
  /\ ~Has(RequestOf(DocOf(line)), "method") /\ Has(RequestOf(DocOf(line)), "uri")
  /\ ~Has(DocOf(line), "size") /\ Has(DocOf(line), "status")
  /\ ~Has(HeadersOf(DocOf(line)), "Referer") /\ Has(HeadersOf(DocOf(line)), "User-Agent")
  /\ Formatted

\* C8 (loopback normalisation): in every output line the REMOTE_IP field is
\* 127.0.0.1 when remote_ip is exactly "::1" and the remote_ip string
\* unchanged otherwise.
C8_Loopback ==
  (Called /\ Formatted /\ Has(RequestOf(DocOf(line)), "remote_ip")
     /\ RequestOf(DocOf(line)).o["remote_ip"].t = "str")
    => clf_line.s = LineWith(IpOf(DocOf(line)), PyStr(FrameOf.referer), PyStr(FrameOf.user_agent))

\* another spelling of the loopback address passed through
C8_Witness ==
  /\ Called /\ Formatted
  /\ Has(RequestOf(DocOf(line)), "remote_ip")
  /\ RequestOf(DocOf(line)).o["remote_ip"] = StrV("0:0:0:0:0:0:0:1")

\* the output lines of a sequence of input lines
RECURSIVE Emitted(_)
Emitted(lines) ==
  IF Len(lines) = 0 THEN <<>>
  ELSE LET r == json_to_clf(strip(lines[Len(lines)]), tz)
           before == Emitted(SubSeq(lines, 1, Len(lines) - 1))
       IN IF r.kind = "return" /\ r.v.t = "str" THEN before \o <<r.v.s>> ELSE before

\* C9 (driver order and count): the output written so far is the sequence of
\* the present results of the lines processed so far, in input order.
C9_DriverOutput == stdout = Emitted(SubSeq(stdin, 1, Processed))

\* two different lines emitted around a skipped one
C9_Witness ==
  /\ pos = 3 /\ Len(stdout) = 2 /\ stdout[1] # stdout[2]
  /\ json_to_clf(strip(stdin[2]), tz) = Return(NoneV)

\* what a header field of the output is expected to read
HeaderField(d, name, computed) ==
  LET h == HeadersOf(d)
  IN IF ~Has(h, name) THEN "-"
     ELSE IF h.o[name] \in {StrV(""), ListV(<<>>), DictV(<<>>), NoneV} THEN "-"
     ELSE IF h.o[name].t = "list" THEN PyStr(h.o[name].l[1])
     ELSE computed  \* a value the statement does not speak of

\* C10 (header selection): in every output line USER_AGENT and REFERER are each
\* the first element of the header's sequence when it has one, and "-" when
\* the key is missing, its value is empty or its sequence is empty, whatever
\* the other header is.
C10_HeaderSelection ==
  (Called /\ Formatted)
    => clf_line.s = LineWith(PyStr(FrameOf.remote_ip),
                             HeaderField(DocOf(line), "Referer", PyStr(FrameOf.referer)),
                             HeaderField(DocOf(line), "User-Agent", PyStr(FrameOf.user_agent)))

\* the first of two User-Agent values chosen beside an empty Referer sequence
C10_Witness ==
  /\ Called /\ Formatted
  /\ Has(HeadersOf(DocOf(line)), "User-Agent")
  /\ HeadersOf(DocOf(line)).o["User-Agent"] = ListV(<<StrV("https://b.example/"), StrV("TestAgent/1.0")>>)
  /\ Has(HeadersOf(DocOf(line)), "Referer")
  /\ HeadersOf(DocOf(line)).o["Referer"] = ListV(<<>>)

-----------------------------------------------------------------------------
(* Statements the code does not meet *)

\* the lines of the stream that are access records of the documented types
ValidAccessLine(text) == ValidJson(text) /\ Documented(DocOf(text))

\* C1 (stream resilience): a line that is no valid JSON yields None, writes
\* nothing and does not end the process, and once the driver has stopped every
\* valid access line that came after such a line has produced its output line.
C1_StreamResilience ==
  /\ (Called /\ ~ValidJson(line)) => (Yielded(NoneV) /\ Len(stdout) < pos)
  /\ pc # "loop" =>
       \A i \in 1..Processed, j \in 1..Len(stdin) :
         (i < j /\ ~ValidJson(stdin[i]) /\ ValidAccessLine(stdin[j]))
           => \E k \in 1..Len(stdout) : stdout[k] = ExpectedLine(DocOf(stdin[j]))

\* a nested structure or a number of a record is of another type
Malformed(d) ==
  \/ Has(d, "request") /\ d.o["request"].t # "obj"
  \/ Has(RequestOf(d), "headers") /\ HeadersOf(d).t # "obj"
  \/ \E k \in {"User-Agent", "Referer"} : Has(HeadersOf(d), k) /\ HeadersOf(d).o[k].t # "list"
  \/ \E k \in {"ts", "status", "size"} : Has(d, k) /\ ~IsNumber(d.o[k])

\* C3 (uniform skip): an access record with a nested structure that is not
\* what is expected, or with ts, status or size that is no number, yields
\* None: no formatted line and no exception.
C3_UniformSkip ==
  (Called /\ ValidJson(line) /\ AccessRecord(DocOf(line)) /\ Malformed(DocOf(line)))
    => Yielded(NoneV)

\* C4 (no line aborts the stream): the driver stops only at the end of input,
\* every line attempted, each one emitted or dropped.
C4_NoLineAborts ==
  pc # "loop" => (pc = "exited" /\ pos = Len(stdin) /\ exc = "")

\* a UTC offset as sign, hours and minutes
OffsetText(seconds) ==
  (IF seconds < 0 THEN "-" ELSE "+")
    \o Pad((IF seconds < 0 THEN -seconds ELSE seconds) \div 3600, 2)
    \o Pad(((IF seconds < 0 THEN -seconds ELSE seconds) % 3600) \div 60, 2)

\* DD/Mon/YYYY:HH:MM:SS of the local time of the record
DateTimeText(d) ==
  strftime(fromtimestamp(IF Has(d, "ts") THEN d.o["ts"] ELSE IntV(0), tz).v,
           <<"%d", "/", "%b", "/", "%Y", ":", "%H", ":", "%M", ":", "%S">>)

\* C5 (timestamp offset): in every output line the timestamp is the date-time,
\* one space and a signed 4-digit offset: the local one, or +0000.
C5_TimestampOffset ==
  (Called /\ Formatted)
    => \E offset \in {OffsetText(tz), "+0000"} :
          /\ FrameOf.time_str = DateTimeText(DocOf(line)) \o " " \o offset
          /\ clf_line.s = CombinedLine(PyStr(FrameOf.remote_ip),
                                       DateTimeText(DocOf(line)) \o " " \o offset,
                                       PyStr(FrameOf.method), PyStr(FrameOf.uri),
                                       PyStr(FrameOf.proto), PyStr(FrameOf.status),
                                       PyStr(FrameOf.size), PyStr(FrameOf.referer),
                                       PyStr(FrameOf.user_agent))

====
